---------------------------- MODULE Spec2Model ----------------------------
(***************************************************************************)
(* PWM LED controller: the two user-space programs of the repository,      *)
(*   device_driver.rs  (one character device, "unified channel")           *)
(*   sysfs.rs          (four sysfs attribute files, "split channel")       *)
(* Each is a loop  read_speed -> map_speed_to_duty_cycles ->               *)
(* set_led_duty_cycles -> sleep  that ends only when an I/O call returns   *)
(* an error to main.                                                       *)
(*                                                                         *)
(* Texts are sequences of one-character strings; "TAB" and "LF" stand for  *)
(* the tab and the line feed, "xFF" for a byte that is not valid UTF-8.    *)
(* A u64 is a sequence of decimal digits without leading zeros, so that    *)
(* values up to 2^64-1 (and the overflow above it) are exact.  An f64 is   *)
(* a 53 bit mantissa and an exponent, rounded to nearest, ties to even.    *)
(***************************************************************************)
EXTENDS Integers, Sequences, FiniteSets

\* --------------------------------------------------------------- bounds
\* Longest content enumerated exhaustively over Alphabet.
MaxLen == 3
\* The example contents carry the speeds 0..MaxExampleSpeed.
MaxExampleSpeed == 12

\* ------------------------------------------------------------ constants
MAX_SPEED == 10
MIN_SPEED == 1

\* ------------------------------------------------------------- naturals
\* Natural numbers of any size as sequences of 16 bit limbs, the least
\* significant first and the last one nonzero (<< >> is 0): TLC's integers
\* end at 2^31, an f64 mantissa has 53 bits.

LimbBits == 16
Base == 2 ^ LimbBits

\* N without its leading (last) zero limbs
Norm(N) ==
  LET k == CHOOSE j \in 0..Len(N) :
             /\ \A i \in (j + 1)..Len(N) : N[i] = 0
             /\ j > 0 => N[j] # 0
  IN  SubSeq(N, 1, k)

Limb(N, i) == IF i >= 1 /\ i <= Len(N) THEN N[i] ELSE 0

\* A natural below 2^31 as limbs, and back
BigOfNat(n) == Norm(<<n % Base, n \div Base>>)
NatOfBig(N) == Limb(N, 1) + Base * Limb(N, 2)

\* The number of bits of a limb, of a natural
LimbLen(x) == CHOOSE k \in 0..LimbBits : x < 2 ^ k /\ (k > 0 => x >= 2 ^ (k - 1))
BitLen(N) == IF N = << >> THEN 0 ELSE LimbBits * (Len(N) - 1) + LimbLen(N[Len(N)])

\* Bit k of N (bit 0 is the least significant); are the k lowest bits zero?
BitAt(N, k) == (Limb(N, k \div LimbBits + 1) \div 2 ^ (k % LimbBits)) % 2
LowBitsZero(N, k) ==
  /\ \A i \in 1..(k \div LimbBits) : Limb(N, i) = 0
  /\ Limb(N, k \div LimbBits + 1) % 2 ^ (k % LimbBits) = 0

\* N * 2^s and N \div 2^s
ShiftLeft(N, s) ==
  LET q == s \div LimbBits
      r == s % LimbBits
  IN  Norm([i \in 1..(Len(N) + q + 1) |->
             (Limb(N, i - q) % 2 ^ (LimbBits - r)) * 2 ^ r
               + Limb(N, i - q - 1) \div 2 ^ (LimbBits - r)])

ShiftRight(N, s) ==
  LET q == s \div LimbBits
      r == s % LimbBits
  IN  IF q >= Len(N) THEN << >>
      ELSE Norm([i \in 1..(Len(N) - q) |->
                  Limb(N, i + q) \div 2 ^ r
                    + (Limb(N, i + q + 1) % 2 ^ r) * 2 ^ (LimbBits - r)])

\* N * c + carry for a small natural c, from limb i on
RECURSIVE BigMulFrom(_, _, _, _)
BigMulFrom(N, c, i, carry) ==
  IF i > Len(N) THEN (IF carry = 0 THEN << >> ELSE <<carry>>)
  ELSE <<(N[i] * c + carry) % Base>>
         \o BigMulFrom(N, c, i + 1, (N[i] * c + carry) \div Base)

BigMulNat(N, c) == Norm(BigMulFrom(N, c, 1, 0))
BigInc(N) == LET One == <<1>> IN IF N = << >> THEN One ELSE BigMulFrom(N, 1, 1, 1)

\* N \div d and N % d for a small natural d, by long division from the most
\* significant limb: BigRemFrom is the remainder of the limbs i..Len(N)
RECURSIVE BigRemFrom(_, _, _)
BigRemFrom(N, d, i) ==
  IF i > Len(N) THEN 0 ELSE (BigRemFrom(N, d, i + 1) * Base + N[i]) % d

BigModNat(N, d) == BigRemFrom(N, d, 1)

BigDivNat(N, d) ==
  Norm([i \in 1..Len(N) |-> (BigRemFrom(N, d, i + 1) * Base + N[i]) \div d])

\* N < M
BigLess(N, M) ==
  \/ Len(N) < Len(M)
  \/ /\ Len(N) = Len(M)
     /\ \E i \in 1..Len(N) :
          /\ N[i] < M[i]
          /\ \A j \in (i + 1)..Len(N) : N[j] = M[j]

\* N - M for N >= M, from limb i on with a borrow
RECURSIVE BigSubFrom(_, _, _, _)
BigSubFrom(N, M, i, borrow) ==
  IF i > Len(N) THEN << >>
  ELSE LET t == N[i] - Limb(M, i) - borrow
       IN  <<IF t < 0 THEN t + Base ELSE t>>
             \o BigSubFrom(N, M, i + 1, IF t < 0 THEN 1 ELSE 0)

BigSub(N, M) == Norm(BigSubFrom(N, M, 1, 0))

\* ------------------------------------------------------------------ f64
\* A positive finite f64 is [m |-> M, e |-> k] with 2^52 <= M < 2^53, the
\* number M * 2^k; F64Zero is 0.0.  Every operation rounds its exact result
\* to the nearest f64, ties to even (IEEE 754, Rust's f64).

MantissaBits == 53

F64Zero == [m |-> << >>, e |-> 0]

\* The f64 nearest to N * 2^e (plus a nonzero fraction of 2^e when sticky)
F64Round(N, e, sticky) ==
  IF N = << >> THEN F64Zero
  ELSE LET s == BitLen(N) - MantissaBits
       IN  IF s <= 0 THEN [m |-> ShiftLeft(N, -s), e |-> e + s]
           ELSE LET keep  == ShiftRight(N, s)
                    guard == BitAt(N, s - 1)
                    rest  == sticky \/ ~LowBitsZero(N, s - 1)
                    up    == guard = 1 /\ (rest \/ BitAt(keep, 0) = 1)
                    inc   == BigInc(keep)
                IN  IF ~up THEN [m |-> keep, e |-> e + s]
                    ELSE IF BitLen(inc) > MantissaBits
                    THEN [m |-> ShiftRight(inc, 1), e |-> e + s + 1]
                    ELSE [m |-> inc, e |-> e + s]

\* `n as f64` for a natural below 2^31 (exact)
F64FromNat(n) == F64Round(BigOfNat(n), 0, FALSE)

\* x / (d as f64), d a small natural (an exact f64)
F64DivNat(x, d) ==
  IF x = F64Zero THEN F64Zero
  ELSE LET N == ShiftLeft(x.m, MantissaBits + 8)
       IN  F64Round(BigDivNat(N, d), x.e - (MantissaBits + 8), BigModNat(N, d) # 0)

\* x * (c as f64), c a small natural (an exact f64)
F64MulNat(x, c) ==
  IF x = F64Zero \/ c = 0 THEN F64Zero
  ELSE F64Round(BigMulNat(x.m, c), x.e, FALSE)

\* The mantissas of x and y over their smaller exponent
F64Align(x, y) ==
  LET e == IF x.e < y.e THEN x.e ELSE y.e
  IN  [x |-> ShiftLeft(x.m, x.e - e), y |-> ShiftLeft(y.m, y.e - e), e |-> e]

\* x > y, for x, y >= 0
F64Gt(x, y) ==
  IF x = F64Zero THEN FALSE
  ELSE IF y = F64Zero THEN TRUE
  ELSE BigLess(F64Align(x, y).y, F64Align(x, y).x)

\* x - y, for x >= y > 0
F64Sub(x, y) ==
  F64Round(BigSub(F64Align(x, y).x, F64Align(x, y).y), F64Align(x, y).e, FALSE)

\* `x as u32` for 0 <= x < 2^31: the fraction is cut off (toward zero)
F64AsU32(x) ==
  IF x = F64Zero THEN 0
  ELSE IF x.e >= 0 THEN NatOfBig(ShiftLeft(x.m, x.e))
  ELSE NatOfBig(ShiftRight(x.m, -x.e))

\* The literals 0.33 and 0.66: the f64 nearest to 33/100 and to 66/100
F64Lit033 == F64DivNat(F64FromNat(33), 100)
F64Lit066 == F64DivNat(F64FromNat(66), 100)

\* ------------------------------------------------------------------ u64
\* A u64 is its decimal digits (numbers 0..9), the most significant first,
\* without leading zeros; zero is <<0>>.

U64_MAX == <<1, 8, 4, 4, 6, 7, 4, 4, 0, 7, 3, 7, 0, 9, 5, 5, 1, 6, 1, 5>>

\* a < b for two digit sequences without leading zeros
DigitsLess(a, b) ==
  \/ Len(a) < Len(b)
  \/ /\ Len(a) = Len(b)
     /\ \E i \in 1..Len(a) :
          /\ a[i] < b[i]
          /\ \A j \in 1..(i - 1) : a[j] = b[j]

\* The digits of a natural below 2^31
NatLen(n) == CHOOSE k \in 1..10 : n < 10 ^ k /\ (k > 1 => n >= 10 ^ (k - 1))
U64OfNat(n) == [i \in 1..NatLen(n) |-> (n \div 10 ^ (NatLen(n) - i)) % 10]

\* The value of a u64 of at most 9 digits
RECURSIVE U64ToNat(_)
U64ToNat(v) ==
  IF v = << >> THEN 0 ELSE 10 * U64ToNat(SubSeq(v, 1, Len(v) - 1)) + v[Len(v)]

\* v <= n and v >= n for a natural n below 10^9
U64LeNat(v, n) == Len(v) <= 9 /\ U64ToNat(v) <= n
U64GeNat(v, n) == Len(v) > 9 \/ U64ToNat(v) >= n

\* ----------------------------------------------------------------- text
Digits == <<"0", "1", "2", "3", "4", "5", "6", "7", "8", "9">>

IsDigit(c) == \E i \in 1..10 : Digits[i] = c
DigitValue(c) == (CHOOSE i \in 1..10 : Digits[i] = c) - 1

\* char::is_whitespace, over the characters of the model
WhiteSpace == {" ", "TAB", "LF"}

\* The byte that is no valid UTF-8
InvalidByte == "xFF"
ValidUtf8(bytes) == \A i \in 1..Len(bytes) : bytes[i] # InvalidByte

\* str::trim: without the leading and trailing white space
Trim(s) ==
  LET keep == {i \in 1..Len(s) : s[i] \notin WhiteSpace}
  IN  IF keep = {} THEN << >>
      ELSE SubSeq(s, CHOOSE i \in keep : \A j \in keep : i <= j,
                     CHOOSE i \in keep : \A j \in keep : i >= j)

\* str::split(sep) collected: the parts between the occurrences of sep, one
\* more than there are occurrences
Split(s, sep) ==
  LET at     == {i \in 1..Len(s) : s[i] = sep}
      n      == Cardinality(at)
      pos(k) == IF k = 0 THEN 0
                ELSE IF k = n + 1 THEN Len(s) + 1
                ELSE CHOOSE p \in at : Cardinality({q \in at : q < p}) = k - 1
  IN  [k \in 1..(n + 1) |-> SubSeq(s, pos(k - 1) + 1, pos(k) - 1)]

\* u32::to_string / "{}": the decimal digits
to_string(n) == [i \in 1..NatLen(n) |-> Digits[U64OfNat(n)[i] + 1]]

\* The decimal text of a u64
U64Text(v) == [i \in 1..Len(v) |-> Digits[v[i] + 1]]

\* str::parse::<u64>: an optional "+", then one or more decimal digits whose
\* value fits 64 bits; anything else is an error (Empty, InvalidDigit,
\* PosOverflow)
ParseU64(s) ==
  LET body  == IF s # << >> /\ s[1] = "+" THEN Tail(s) ELSE s
      nums  == [i \in 1..Len(body) |-> DigitValue(body[i])]
      lead  == {i \in 1..Len(body) : nums[i] # 0}
      value == IF lead = {} THEN <<0>>
               ELSE SubSeq(nums, CHOOSE i \in lead : \A j \in lead : i <= j, Len(nums))
  IN  IF body = << >> \/ \E i \in 1..Len(body) : ~IsDigit(body[i])
      THEN [ok |-> FALSE, val |-> <<0>>]
      ELSE IF DigitsLess(U64_MAX, value)
      THEN [ok |-> FALSE, val |-> <<0>>]
      ELSE [ok |-> TRUE, val |-> value]

\* Result::unwrap_or(0) of a parse
UnwrapOr0(r) == IF r.ok THEN r.val ELSE <<0>>

\* A write of data at offset 0 of a file opened with write(true) alone (no
\* truncate, no append): the bytes after the data stay
WriteAt0(old, data) == data \o SubSeq(old, Len(data) + 1, Len(old))

\* -------------------------------------------------------------- mapping
\* std::io::Error: the call that failed (kind) and the file it failed on
NoError == [kind |-> "none", path |-> "none"]
IoError(kind, path) == [kind |-> kind, path |-> path]

\* Result<u64, Error>
Ok(v) == [ok |-> TRUE, val |-> v, err |-> NoError]
Err(e) == [ok |-> FALSE, val |-> <<0>>, err |-> e]

\* Mutant of ScaleLeds: the percentage cut to two decimals before use
ScaleLedsTwoDecimals(position, range) ==
  LET percentage == F64DivNat(F64FromNat((100 * position) \div range), 100)
      led1 == 10 + F64AsU32(F64MulNat(percentage, 90))
      led2 == IF F64Gt(percentage, F64Lit033)
              THEN F64AsU32(F64MulNat(F64Sub(percentage, F64Lit033), 150))
              ELSE 0
      led3 == IF F64Gt(percentage, F64Lit066)
              THEN F64AsU32(F64MulNat(F64Sub(percentage, F64Lit066), 300))
              ELSE 0
      Min100(x) == IF x < 100 THEN x ELSE 100
  IN  <<led1, Min100(led2), Min100(led3)>>

\* Mutant of ScaleLeds: LED1 ramps down from 100 instead of up from 10
ScaleLedsInverted(position, range) ==
  LET percentage == F64DivNat(F64FromNat(position), range)
      led1 == 100 - F64AsU32(F64MulNat(percentage, 90))
      led2 == IF F64Gt(percentage, F64Lit033)
              THEN F64AsU32(F64MulNat(F64Sub(percentage, F64Lit033), 150))
              ELSE 0
      led3 == IF F64Gt(percentage, F64Lit066)
              THEN F64AsU32(F64MulNat(F64Sub(percentage, F64Lit066), 300))
              ELSE 0
      Min100(x) == IF x < 100 THEN x ELSE 100
  IN  <<led1, Min100(led2), Min100(led3)>>

\* The else branch of map_speed_to_duty_cycles, for a position in 1..range-1
ScaleLeds(position, range) ==
  LET percentage == F64DivNat(F64FromNat(position), range)
      led1 == 10 + F64AsU32(F64MulNat(percentage, 90))
      led2 == IF F64Gt(percentage, F64Lit033)
              THEN F64AsU32(F64MulNat(F64Sub(percentage, F64Lit033), 150))
              ELSE 0
      led3 == IF F64Gt(percentage, F64Lit066)
              THEN F64AsU32(F64MulNat(F64Sub(percentage, F64Lit066), 300))
              ELSE 0
      Min100(x) == IF x < 100 THEN x ELSE 100
  IN  <<led1, Min100(led2), Min100(led3)>>

\* The else branch for each speed strictly between the bounds, by its position
InterpolatedLeds ==
  [position \in 1..(MAX_SPEED - MIN_SPEED - 1) |->
     ScaleLeds(position, MAX_SPEED - MIN_SPEED)]

\* Mutant of map_speed_to_duty_cycles: the upper branch tests the speed
\* against 100 (a percentage) instead of MAX_SPEED
map_speed_wrong_max(speed) ==
  IF U64LeNat(speed, MIN_SPEED) THEN <<10, 0, 0>>
  ELSE IF U64GeNat(speed, 100) THEN <<100, 100, 100>>
  ELSE ScaleLeds(U64ToNat(speed) - MIN_SPEED, MAX_SPEED - MIN_SPEED)

\* device_driver.rs
map_speed_to_duty_cycles(speed) ==
  IF U64LeNat(speed, MIN_SPEED) THEN <<10, 0, 0>>
  ELSE IF U64GeNat(speed, MAX_SPEED) THEN <<100, 100, 100>>
  ELSE InterpolatedLeds[U64ToNat(speed) - MIN_SPEED]

\* Mutant of sysfs_map_speed_to_duty_cycles: all LEDs off at the minimum
sysfs_map_speed_min_off(speed) ==
  IF U64LeNat(speed, MIN_SPEED) THEN <<0, 0, 0>>
  ELSE IF U64GeNat(speed, MAX_SPEED) THEN <<100, 100, 100>>
  ELSE ScaleLeds(U64ToNat(speed) - MIN_SPEED, MAX_SPEED - MIN_SPEED)

\* sysfs.rs: the same function again
sysfs_map_speed_to_duty_cycles(speed) ==
  IF U64LeNat(speed, MIN_SPEED) THEN <<10, 0, 0>>
  ELSE IF U64GeNat(speed, MAX_SPEED) THEN <<100, 100, 100>>
  ELSE InterpolatedLeds[U64ToNat(speed) - MIN_SPEED]

\* -------------------------------------------------------------- backend
\* What the operating system does with one call is its outcome: a read is
\* [io |-> "ok" | "open_failed" | "read_failed", bytes |-> the content read];
\* a write is [io |-> "ok" | "open_failed" | "write_failed", at |-> the file
\* (1..3) that fails, n |-> the bytes write_all wrote before it failed].


\* str::split_whitespace().next(): the first run of characters that are no
\* white space; none when there is no such character
FirstToken(s) ==
  LET ink  == {i \in 1..Len(s) : s[i] \notin WhiteSpace}
      from == CHOOSE i \in ink : \A j \in ink : i <= j
      gaps == {i \in from..Len(s) : s[i] \in WhiteSpace}
  IN  IF ink = {} THEN << >>
      ELSE IF gaps = {} THEN SubSeq(s, from, Len(s))
      ELSE SubSeq(s, from, (CHOOSE i \in gaps : \A j \in gaps : i <= j) - 1)

\* Mutant of read_speed: splitn(2, ':') and split_whitespace() in place of
\* split(':') and trim().split(' ')
read_speed_splitn(o) ==
  IF o.io = "open_failed" THEN Err(IoError("open", "dev"))
  ELSE IF o.io = "read_failed" THEN Err(IoError("read", "dev"))
  ELSE IF ~ValidUtf8(o.bytes) THEN Err(IoError("invalid_data", "dev"))
  ELSE LET colons == {i \in 1..Len(o.bytes) : o.bytes[i] = ":"}
           first  == CHOOSE i \in colons : \A j \in colons : i <= j
       IN  IF colons # {}
           THEN Ok(UnwrapOr0(ParseU64(
                  FirstToken(SubSeq(o.bytes, first + 1, Len(o.bytes))))))
           ELSE Ok(<<0>>)

\* device_driver.rs: read_speed
read_speed(o) ==
  IF o.io = "open_failed" THEN Err(IoError("open", "dev"))
  ELSE IF o.io = "read_failed" THEN Err(IoError("read", "dev"))
  ELSE IF ~ValidUtf8(o.bytes) THEN Err(IoError("invalid_data", "dev"))
  ELSE LET parts == Split(o.bytes, ":")
       IN  IF Len(parts) >= 2
           THEN Ok(UnwrapOr0(ParseU64(Split(Trim(parts[2]), " ")[1])))
           ELSE Ok(<<0>>)

\* sysfs.rs: read_speed
sysfs_read_speed(o) ==
  IF o.io = "open_failed" THEN Err(IoError("open", "button_speed"))
  ELSE IF o.io = "read_failed" THEN Err(IoError("read", "button_speed"))
  ELSE IF ~ValidUtf8(o.bytes) THEN Err(IoError("invalid_data", "button_speed"))
  ELSE Ok(UnwrapOr0(ParseU64(Trim(o.bytes))))

\* OpenOptions::new().write(true).open(path)?; file.write_all(data)?
\* on a file holding old; fails says whether this is the call that fails
OpenAndWrite(old, data, path, o, fails) ==
  IF fails /\ o.io = "open_failed"
  THEN [ok |-> FALSE, bytes |-> old, err |-> IoError("open", path)]
  ELSE IF fails /\ o.io = "write_failed"
  THEN [ok |-> FALSE, bytes |-> WriteAt0(old, SubSeq(data, 1, o.n)),
        err |-> IoError("write", path)]
  ELSE [ok |-> TRUE, bytes |-> WriteAt0(old, data), err |-> NoError]

\* format!("{} {} {}", led1, led2, led3)
Command(led1, led2, led3) ==
  to_string(led1) \o <<" ">> \o to_string(led2) \o <<" ">> \o to_string(led3)

\* device_driver.rs: set_led_duty_cycles, on the device file holding dev
set_led_duty_cycles(dev, led1, led2, led3, o) ==
  LET w == OpenAndWrite(dev, Command(led1, led2, led3), "dev", o, o.io # "ok")
  IN  [ok |-> w.ok, err |-> w.err, files |-> <<w.bytes>>]

\* Mutant of sysfs_set_led_duty_cycles: the three files are opened first and
\* written afterwards
sysfs_set_led_open_first(f1, f2, f3, led1, led2, led3, o) ==
  LET path == <<"led1_duty", "led2_duty", "led3_duty">>
      w1 == OpenAndWrite(f1, to_string(led1), "led1_duty", o, o.io # "ok" /\ o.at = 1)
      w2 == OpenAndWrite(f2, to_string(led2), "led2_duty", o, o.io # "ok" /\ o.at = 2)
      w3 == OpenAndWrite(f3, to_string(led3), "led3_duty", o, o.io # "ok" /\ o.at = 3)
  IN  IF o.io = "open_failed"
      THEN [ok |-> FALSE, err |-> IoError("open", path[o.at]), files |-> <<f1, f2, f3>>]
      ELSE IF ~w1.ok THEN [ok |-> FALSE, err |-> w1.err, files |-> <<w1.bytes, f2, f3>>]
      ELSE IF ~w2.ok
      THEN [ok |-> FALSE, err |-> w2.err, files |-> <<w1.bytes, w2.bytes, f3>>]
      ELSE IF ~w3.ok
      THEN [ok |-> FALSE, err |-> w3.err, files |-> <<w1.bytes, w2.bytes, w3.bytes>>]
      ELSE [ok |-> TRUE, err |-> NoError, files |-> <<w1.bytes, w2.bytes, w3.bytes>>]

\* sysfs.rs: set_led_duty_cycles, on the three files holding f1, f2, f3
sysfs_set_led_duty_cycles(f1, f2, f3, led1, led2, led3, o) ==
  LET w1 == OpenAndWrite(f1, to_string(led1), "led1_duty", o, o.io # "ok" /\ o.at = 1)
      w2 == OpenAndWrite(f2, to_string(led2), "led2_duty", o, o.io # "ok" /\ o.at = 2)
      w3 == OpenAndWrite(f3, to_string(led3), "led3_duty", o, o.io # "ok" /\ o.at = 3)
  IN  IF ~w1.ok THEN [ok |-> FALSE, err |-> w1.err, files |-> <<w1.bytes, f2, f3>>]
      ELSE IF ~w2.ok
      THEN [ok |-> FALSE, err |-> w2.err, files |-> <<w1.bytes, w2.bytes, f3>>]
      ELSE IF ~w3.ok
      THEN [ok |-> FALSE, err |-> w3.err, files |-> <<w1.bytes, w2.bytes, w3.bytes>>]
      ELSE [ok |-> TRUE, err |-> NoError, files |-> <<w1.bytes, w2.bytes, w3.bytes>>]

\* ---------------------------------------------------------- environment
\* The characters of the contents enumerated up to MaxLen
Alphabet == {":", " ", "TAB", "3", "x", InvalidByte}

ShortContents == UNION {[1..n -> Alphabet] : n \in 0..MaxLen}

\* "speed: <n> presses/second" and "<n>\n", for a u64 n
DeviceLine(v) ==
  <<"s", "p", "e", "e", "d", ":", " ">> \o U64Text(v)
    \o <<" ", "p", "r", "e", "s", "s", "e", "s", "/", "s", "e", "c", "o", "n", "d">>
SysfsLine(v) == U64Text(v) \o <<"LF">>

\* 2^64, which no u64 holds
U64_OVERFLOW == <<1, 8, 4, 4, 6, 7, 4, 4, 0, 7, 3, 7, 0, 9, 5, 5, 1, 6, 1, 6>>

ExampleSpeeds ==
  {U64OfNat(n) : n \in 0..MaxExampleSpeed} \cup {U64_MAX, U64_OVERFLOW}

ExampleContents ==
  {DeviceLine(v) : v \in ExampleSpeeds} \cup {SysfsLine(v) : v \in ExampleSpeeds}
    \cup { <<"g", "a", "r", "b", "a", "g", "e">>,
           <<"x", ":", " ", "n", "o", "t", "a", "n", "u", "m", "b", "e", "r">>,
           <<" ", " ", "4", "LF">>,
           <<"a", ":", " ", "3", ":", "4">>,
           <<"x", ":", " ", "3", "TAB", "f", "o", "o">>,
           <<"x", ":", "TAB", "7", " ", "8">>,
           <<"-", "5">>, <<":", "-", "5">>,
           <<"+", "7">>, <<":", "+", "7">>,
           <<"0", "0", "9">>, <<":", "0", "0", "9">>,
           <<"5", InvalidByte, "LF">>,
           <<"s", ":", " ", "5", " ", InvalidByte>> }

Contents == ShortContents \cup ExampleContents

ReadOutcomes(contents) ==
  {[io |-> f, bytes |-> << >>] : f \in {"open_failed", "read_failed"}}
    \cup {[io |-> "ok", bytes |-> c] : c \in contents}

\* The outcomes of a commit that writes texts[1], texts[2], ...
WriteOutcomes(texts) ==
  {[io |-> "ok", at |-> 0, n |-> 0]}
    \cup {[io |-> "open_failed", at |-> i, n |-> 0] : i \in 1..Len(texts)}
    \cup UNION {{[io |-> "write_failed", at |-> i, n |-> k] :
                   k \in 0..(Len(texts[i]) - 1)} : i \in 1..Len(texts)}

\* ---------------------------------------------------------------- state
VARIABLES
  variant,   \* which program runs: "device" (device_driver.rs) or "sysfs"
  pc,        \* where main is: "read_speed", "map_speed", "set_led", "sleep",
             \* or "Fatal" once main has returned an error
  buffer,    \* what read_speed read, until the mapping is computed
  speed,     \* main's speed
  led,       \* main's (led1, led2, led3)
  fs,        \* the bytes of the files the programs write
  err,       \* the error main returned
  calls      \* the last backend call: n flips with every call, last is
             \* "sample" or "commit", ok its success, ret the speed a sample
             \* returned, arg the triple a commit was given

vars == <<variant, pc, buffer, speed, led, fs, err, calls>>

Paths == {"dev", "led1_duty", "led2_duty", "led3_duty"}

Init ==
  /\ variant \in {"device", "sysfs"}
  /\ pc = "read_speed"
  /\ buffer = << >>
  /\ speed = <<0>>
  /\ led = <<0, 0, 0>>
  /\ fs = [p \in Paths |-> << >>]
  /\ err = NoError
  /\ calls = [n |-> 0, last |-> "none", ok |-> TRUE, ret |-> <<0>>, arg |-> <<0, 0, 0>>]

\* Mutant of MainNext: an error of a call is dropped and the loop goes on
MainNextIgnoresErrors(at, ok) ==
  CASE at = "read_speed" -> "map_speed"
    [] at = "map_speed"  -> "set_led"
    [] at = "set_led"    -> "sleep"
    [] at = "sleep"      -> "read_speed"

\* main's loop and its two `?`: where main is after the step at `at`
MainNext(at, ok) ==
  IF ~ok THEN "Fatal"
  ELSE CASE at = "read_speed" -> "map_speed"
         [] at = "map_speed"  -> "set_led"
         [] at = "set_led"    -> "sleep"
         [] at = "sleep"      -> "read_speed"

Sampled(r) ==
  [n |-> 1 - calls.n, last |-> "sample", ok |-> r.ok, ret |-> r.val, arg |-> calls.arg]
Committed(r, triple) ==
  [n |-> 1 - calls.n, last |-> "commit", ok |-> r.ok, ret |-> calls.ret, arg |-> triple]

\* ---- device_driver.rs: main
main_read_speed ==
  /\ variant = "device" /\ pc = "read_speed"
  /\ \E o \in ReadOutcomes(Contents \cup {fs.dev}) :
       LET r == read_speed(o)
       IN  /\ pc' = MainNext(pc, r.ok)
           /\ speed' = (IF r.ok THEN r.val ELSE speed)
           /\ buffer' = (IF r.ok THEN o.bytes ELSE << >>)
           /\ err' = r.err
           /\ calls' = Sampled(r)
  /\ UNCHANGED <<variant, led, fs>>

\* Mutant of main_map_speed: the triple is computed in the first iteration
\* only and kept afterwards
main_map_speed_once ==
  /\ variant = "device" /\ pc = "map_speed"
  /\ led' = (IF led = <<0, 0, 0>> THEN map_speed_to_duty_cycles(speed) ELSE led)
  /\ buffer' = << >>
  /\ pc' = MainNext(pc, TRUE)
  /\ UNCHANGED <<variant, speed, fs, err, calls>>

main_map_speed ==
  /\ variant = "device" /\ pc = "map_speed"
  /\ led' = map_speed_to_duty_cycles(speed)
  /\ buffer' = << >>
  /\ pc' = MainNext(pc, TRUE)
  /\ UNCHANGED <<variant, speed, fs, err, calls>>

main_set_led ==
  /\ variant = "device" /\ pc = "set_led"
  /\ \E o \in WriteOutcomes(<<Command(led[1], led[2], led[3])>>) :
       LET r == set_led_duty_cycles(fs.dev, led[1], led[2], led[3], o)
       IN  /\ fs' = [fs EXCEPT !.dev = r.files[1]]
           /\ pc' = MainNext(pc, r.ok)
           /\ err' = r.err
           /\ calls' = Committed(r, led)
  /\ UNCHANGED <<variant, buffer, speed, led>>

main_sleep ==
  /\ variant = "device" /\ pc = "sleep"
  /\ pc' = MainNext(pc, TRUE)
  /\ UNCHANGED <<variant, buffer, speed, led, fs, err, calls>>

\* ---- sysfs.rs: main
sysfs_main_read_speed ==
  /\ variant = "sysfs" /\ pc = "read_speed"
  /\ \E o \in ReadOutcomes(Contents) :
       LET r == sysfs_read_speed(o)
       IN  /\ pc' = MainNext(pc, r.ok)
           /\ speed' = (IF r.ok THEN r.val ELSE speed)
           /\ buffer' = (IF r.ok THEN o.bytes ELSE << >>)
           /\ err' = r.err
           /\ calls' = Sampled(r)
  /\ UNCHANGED <<variant, led, fs>>

sysfs_main_map_speed ==
  /\ variant = "sysfs" /\ pc = "map_speed"
  /\ led' = sysfs_map_speed_to_duty_cycles(speed)
  /\ buffer' = << >>
  /\ pc' = MainNext(pc, TRUE)
  /\ UNCHANGED <<variant, speed, fs, err, calls>>

sysfs_main_set_led ==
  /\ variant = "sysfs" /\ pc = "set_led"
  /\ \E o \in WriteOutcomes(<<to_string(led[1]), to_string(led[2]), to_string(led[3])>>) :
       LET r == sysfs_set_led_duty_cycles(fs.led1_duty, fs.led2_duty, fs.led3_duty,
                                          led[1], led[2], led[3], o)
       IN  /\ fs' = [fs EXCEPT !.led1_duty = r.files[1],
                               !.led2_duty = r.files[2],
                               !.led3_duty = r.files[3]]
           /\ pc' = MainNext(pc, r.ok)
           /\ err' = r.err
           /\ calls' = Committed(r, led)
  /\ UNCHANGED <<variant, buffer, speed, led>>

sysfs_main_sleep ==
  /\ variant = "sysfs" /\ pc = "sleep"
  /\ pc' = MainNext(pc, TRUE)
  /\ UNCHANGED <<variant, buffer, speed, led, fs, err, calls>>

Next ==
  \/ main_read_speed
  \/ main_map_speed
  \/ main_set_led
  \/ main_sleep
  \/ sysfs_main_read_speed
  \/ sysfs_main_map_speed
  \/ sysfs_main_set_led
  \/ sysfs_main_sleep

Spec == Init /\ [][Next]_vars

\* ================================================================ claims
MapOf(v, s) ==
  IF v = "device" THEN map_speed_to_duty_cycles(s) ELSE sysfs_map_speed_to_duty_cycles(s)

\* A step that makes a backend call (a sample or a commit)
CallStep == calls'.n # calls.n

\* C1: once the mapping has run, in either program, a speed <= MIN_SPEED
\* (0 included) has given exactly (10, 0, 0) and a speed >= MAX_SPEED (up to
\* 2^64-1) exactly (100, 100, 100).
SaturatesAtBothEnds ==
  pc = "set_led" =>
    /\ DigitsLess(speed, <<2>>) => led = <<10, 0, 0>>
    /\ ~DigitsLess(speed, <<1, 0>>) => led = <<100, 100, 100>>

SaturatesWitness ==
  /\ pc = "set_led" /\ variant = "sysfs"
  /\ speed = U64_MAX /\ led = <<100, 100, 100>>
  /\ fs.led1_duty = <<"1", "0">>

\* C2: each of the three values handed to set_led_duty_cycles lies in
\* 0..100, whatever speeds were sampled.
DutyWithinBounds ==
  /\ calls.last = "commit" => \A i \in 1..3 : calls.arg[i] >= 0 /\ calls.arg[i] <= 100
  /\ pc = "set_led" => \A i \in 1..3 : led[i] >= 0 /\ led[i] <= 100

DutyWithinBoundsWitness ==
  /\ calls.last = "commit" /\ calls.ok
  /\ calls.ret = U64_MAX /\ calls.arg = <<100, 100, 100>>

\* C3 as stated: the mapping of speed 5 is (49, 17, 0).
MapOfFiveIs49 ==
  pc = "set_led" /\ speed = <<5>> => led = <<49, 17, 0>>

\* C3 amended: the mapping of speed 5 is (50, 17, 0): 90.0 * (4.0 / 9.0) is
\* exactly 40.0 in f64, so d1 = 10 + 40.
MapOfFiveIs50 ==
  pc = "set_led" /\ speed = <<5>> => led = <<50, 17, 0>>

MapOfFiveWitness ==
  pc = "set_led" /\ speed = <<5>> /\ variant = "device" /\ led[2] = 17

\* C4: main is in Fatal exactly when its last backend call failed; in Fatal
\* no step is possible (no further sample, no commit, no retry), and in every
\* other state one is: main ends in Fatal and nowhere else.
FatalIsTerminal ==
  /\ pc = "Fatal" <=> ~calls.ok
  /\ pc = "Fatal" <=> ~ENABLED Next
  /\ pc = "Fatal" => err.kind # "none"

FatalWitness ==
  /\ pc = "Fatal" /\ calls.last = "sample" /\ ~calls.ok
  /\ err.kind = "read" /\ fs.dev # << >>

\* What read_speed of device_driver.rs returns for a text, as C5 states it:
\* the text is cut at its first colon only and the first white space delimited
\* token of the rest is parsed.
SampleAsStated(text) ==
  LET colons == {i \in 1..Len(text) : text[i] = ":"}
      first  == CHOOSE i \in colons : \A j \in colons : i <= j
      rest   == SubSeq(text, first + 1, Len(text))
      ink    == {i \in 1..Len(rest) : rest[i] \notin WhiteSpace}
      from   == CHOOSE i \in ink : \A j \in ink : i <= j
      upto   == CHOOSE i \in from..Len(rest) :
                  /\ \A j \in from..i : rest[j] \notin WhiteSpace
                  /\ i < Len(rest) => rest[i + 1] \in WhiteSpace
  IN  IF colons = {} \/ ink = {} THEN <<0>>
      ELSE UnwrapOr0(ParseU64(SubSeq(rest, from, upto)))

\* What it returns as C5 is amended: the text is cut at every colon; of the
\* part between the first and the second colon (or the end), without its
\* surrounding white space, the characters before the first space character
\* are parsed.
SampleAsCoded(text) ==
  LET colons == {i \in 1..Len(text) : text[i] = ":"}
      first  == CHOOSE i \in colons : \A j \in colons : i <= j
      later  == {i \in colons : i > first}
      second == IF later = {} THEN Len(text) + 1
                ELSE CHOOSE i \in later : \A j \in later : i <= j
      ink    == {i \in (first + 1)..(second - 1) : text[i] \notin WhiteSpace}
      from   == CHOOSE i \in ink : \A j \in ink : i <= j
      last   == CHOOSE i \in ink : \A j \in ink : i >= j
      upto   == CHOOSE i \in from..last :
                  /\ \A j \in from..i : text[j] # " "
                  /\ i < last => text[i + 1] = " "
  IN  IF colons = {} \/ ink = {} THEN <<0>>
      ELSE UnwrapOr0(ParseU64(SubSeq(text, from, upto)))

\* C5 as stated: for every content of the unified-channel file, read_speed
\* returns 0 when there is no colon, and otherwise the first white space
\* delimited token after the first colon, parsed, or 0 when it does not parse.
SampleSplitsAtFirstColon ==
  variant = "device" /\ pc = "map_speed" => speed = SampleAsStated(buffer)

\* C5 amended: for every content of the unified-channel file, read_speed
\* returns 0 when there is no colon, and otherwise what stands between the
\* first and the second colon (or the end), trimmed, up to its first space
\* character, parsed, or 0 when it does not parse.
SampleSplitsAtEveryColon ==
  variant = "device" /\ pc = "map_speed" => speed = SampleAsCoded(buffer)

SampleWitness ==
  /\ variant = "device" /\ pc = "map_speed"
  /\ buffer = <<"a", ":", " ", "3", ":", "4">> /\ speed = <<3>>

\* C6: a sample fails only when the operating system fails to open or to read
\* the file; no content of the file makes it fail.
ContentIsNeverAnError ==
  pc = "Fatal" /\ calls.last = "sample" => err.kind \in {"open", "read"}

\* C7: a failed commit of sysfs.rs has written the files before the failing
\* one, in the order led1_duty, led2_duty, led3_duty (each holds the text of
\* its new value, written at offset 0), left the files after it as they were,
\* and left the failing one as it was when its open failed: nothing is rolled
\* back and nothing is written after the failure.
SplitCommitIsSequential ==
  [][ (variant = "sysfs" /\ CallStep /\ calls'.last = "commit" /\ ~calls'.ok) =>
        LET new1 == WriteAt0(fs.led1_duty, to_string(calls'.arg[1]))
            new2 == WriteAt0(fs.led2_duty, to_string(calls'.arg[2]))
        IN  /\ err'.path \in {"led1_duty", "led2_duty", "led3_duty"}
            /\ err'.path = "led1_duty" =>
                 /\ fs'.led2_duty = fs.led2_duty /\ fs'.led3_duty = fs.led3_duty
                 /\ err'.kind = "open" => fs'.led1_duty = fs.led1_duty
            /\ err'.path = "led2_duty" =>
                 /\ fs'.led1_duty = new1 /\ fs'.led3_duty = fs.led3_duty
                 /\ err'.kind = "open" => fs'.led2_duty = fs.led2_duty
            /\ err'.path = "led3_duty" =>
                 /\ fs'.led1_duty = new1 /\ fs'.led2_duty = new2
                 /\ err'.kind = "open" => fs'.led3_duty = fs.led3_duty ]_vars

SplitCommitWitness ==
  /\ variant = "sysfs" /\ pc = "Fatal"
  /\ err = IoError("open", "led2_duty")
  /\ calls.arg = <<50, 17, 0>>
  /\ fs.led1_duty = <<"5", "0">> /\ fs.led2_duty = << >> /\ fs.led3_duty = << >>

\* C8: LED1 is monotone: the first duty value computed for a speed s1 strictly
\* between MIN_SPEED and MAX_SPEED is at most the one of every greater speed
\* s2 below MAX_SPEED.
Led1Monotone ==
  pc = "set_led" /\ Len(speed) = 1 /\ speed[1] > MIN_SPEED =>
    \A s2 \in (speed[1] + 1)..(MAX_SPEED - 1) : led[1] <= MapOf(variant, <<s2>>)[1]

Led1MonotoneWitness ==
  pc = "set_led" /\ speed = <<4>> /\ led[1] = 40 /\ variant = "sysfs"

\* C9: samples and commits alternate, a sample first; no call follows a failed
\* one; and each commit is given the mapping of the speed the sample just
\* before it returned.
SampleCommitAlternate ==
  [][ CallStep =>
        /\ calls.ok
        /\ calls'.last = "sample" => calls.last \in {"none", "commit"}
        /\ calls'.last = "commit" =>
             /\ calls.last = "sample"
             /\ calls'.arg = MapOf(variant, calls.ret) ]_vars

AlternateWitness ==
  /\ variant = "device" /\ calls.last = "commit" /\ calls.ok
  /\ calls.ret = <<7>> /\ calls.arg = <<70, 50, 1>>
  /\ fs.dev = <<"7", "0", " ", "5", "0", " ", "1", " ", "1", "0", "0">>

\* C10: after a successful commit each output file holds exactly the text
\* just written.
CommittedContentIsExact ==
  pc = "sleep" =>
    /\ variant = "device" => fs.dev = Command(led[1], led[2], led[3])
    /\ variant = "sysfs" =>
         /\ fs.led1_duty = to_string(led[1])
         /\ fs.led2_duty = to_string(led[2])
         /\ fs.led3_duty = to_string(led[3])
=============================================================================
